---- MODULE Spec2Model ----
(***************************************************************************)
(* Model of the cryptogram solver of src/main.rs: the pattern              *)
(* canonicalizer, the dictionary index, the candidate matcher, the mapping *)
(* extender, the backtracking search (guess) and the phrase renderer.      *)
(*                                                                         *)
(* A string is a sequence of bytes (integers); a FxHashMap<u8, u8> is a    *)
(* function whose domain is the set of its keys; an Option is a set with   *)
(* at most one element.                                                    *)
(***************************************************************************)
EXTENDS Integers, Sequences, FiniteSets, TLC

\* ---------------------------------------------------------------- bounds
NumLetters == 2
MaxWordLen == 2
MaxDictLen == 2
MaxPhraseLen == 6
NumPureLetters == 3
MaxPatternLen == 4

\* ----------------------------------------------------------------- bytes
\* The lowercase letters 'a', 'b', ... the model draws words from.
Letters == 97..(96 + NumLetters)

\* The ASCII bytes str::split_whitespace splits on.
Whitespace == {9, 10, 11, 12, 13, 32}

\* The bytes a phrase is drawn from: the letters and the space.
PhraseBytes == Letters \cup {32}

\* Option<T>
None == {}

Some(x) == {x}

\* All sequences over S of length lo..hi.
SeqsOf(S, lo, hi) == UNION {[1..n -> S] : n \in lo..hi}

Range(f) == {f[x] : x \in DOMAIN f}

\* The empty FxHashMap.
EmptyMap == [x \in {} |-> 0]

\* ---------------------------------------------------------------- Pattern
RECURSIVE PatternLoop(_, _, _, _, _)
\* The loop of Pattern::from_str: symbol_map.entry(u).or_insert_with(..) and
\* symbols.push(..), with next_symbol a u8.
PatternLoop(s, i, next_symbol, symbols, symbol_map) ==
    IF i > Len(s) THEN symbols
    ELSE LET u == s[i] IN
         IF u \in DOMAIN symbol_map
         THEN PatternLoop(s, i + 1, next_symbol,
                          Append(symbols, symbol_map[u]), symbol_map)
         ELSE PatternLoop(s, i + 1, (next_symbol + 1) % 256,
                          Append(symbols, next_symbol),
                          symbol_map @@ (u :> next_symbol))

\* PatternFromStr with a seeded fault: the id of a byte is its position of first
\* occurrence minus one, so ids are not consecutive.
PatternFromStrSkipping(s) ==
    [i \in 1..Len(s) |->
        (CHOOSE j \in 1..i : s[j] = s[i] /\ \A k \in 1..(j - 1) : s[k] # s[i]) - 1]

PatternFromStr(s) == PatternLoop(s, 1, 0, <<>>, EmptyMap)

\* ------------------------------------------------------- Dictionary index
\* One iteration of the outer loop of from_dictionary on words_by_pattern.
InsertByPattern(by_pattern, word) ==
    LET p == PatternFromStr(word) IN
    IF p \in DOMAIN by_pattern
    THEN [by_pattern EXCEPT ![p] = @ \cup {word}]
    ELSE by_pattern @@ (p :> {word})

RECURSIVE InsertByCharacterAndIndex(_, _, _)
\* The inner loop of from_dictionary, from position idx (1-based) on.
InsertByCharacterAndIndex(by_idx, word, idx) ==
    IF idx > Len(word) THEN by_idx
    ELSE LET u == word[idx]
             by_char == IF idx \in DOMAIN by_idx THEN by_idx[idx] ELSE EmptyMap
             set == IF u \in DOMAIN by_char THEN by_char[u] ELSE {}
             by_char2 == IF u \in DOMAIN by_char
                         THEN [by_char EXCEPT ![u] = set \cup {word}]
                         ELSE by_char @@ (u :> {word})
             by_idx2 == IF idx \in DOMAIN by_idx
                        THEN [by_idx EXCEPT ![idx] = by_char2]
                        ELSE by_idx @@ (idx :> by_char2)
         IN  InsertByCharacterAndIndex(by_idx2, word, idx + 1)

RECURSIVE FromDictionaryLoop(_, _, _)
FromDictionaryLoop(solver, dict, i) ==
    IF i > Len(dict) THEN solver
    ELSE FromDictionaryLoop(
            [words_by_pattern |-> InsertByPattern(solver.words_by_pattern, dict[i]),
             words_by_character_and_index |->
                InsertByCharacterAndIndex(solver.words_by_character_and_index, dict[i], 1)],
            dict, i + 1)

\* Solver::from_dictionary
FromDictionary(dict) ==
    FromDictionaryLoop([words_by_pattern |-> EmptyMap,
                        words_by_character_and_index |-> EmptyMap], dict, 1)

\* ------------------------------------------------------------------ state
VARIABLES
    words,                          \* the word list given to from_dictionary
    words_by_pattern,               \* Solver.words_by_pattern
    words_by_character_and_index,   \* Solver.words_by_character_and_index (positions from 1)
    phrase,                         \* the Phrase given to solve
    plain,                          \* the plaintext the phrase was encrypted from
    perm,                           \* the permutation it was encrypted with
    pc,                             \* "start", "guess", "done": position in solve
    stack,                          \* the active guess calls, outermost first
    results,                        \* the mappings collected so far (letter_mappings)
    output,                         \* the strings solve returns
    depth,                          \* deepest nesting of guess calls reached (outermost = 0)
    steps,                          \* steps solve has taken
    pat_in, pat_out,                \* inputs and results of Pattern::from_str
    ext_in, ext_out                 \* input and result of try_extend_mapping

vars == <<words, words_by_pattern, words_by_character_and_index, phrase, plain, perm,
          pc, stack, results, output, depth, steps, pat_in, pat_out, ext_in, ext_out>>

solveVars == <<words, words_by_pattern, words_by_character_and_index, phrase, plain, perm,
               pc, stack, results, output, depth, steps>>

\* ----------------------------------------------------------------- Solver
\* Solver::words_by_pattern: the bucket of the word's pattern, empty if unseen.
WordsByPattern(word) ==
    LET pattern == PatternFromStr(word) IN
    IF pattern \in DOMAIN words_by_pattern THEN words_by_pattern[pattern] ELSE {}

\* Solver::words_by_character_and_index: an Option, None if no word has byte u
\* at position idx.
WordsByCharacterAndIndex(u, idx) ==
    IF idx \in DOMAIN words_by_character_and_index
       /\ u \in DOMAIN words_by_character_and_index[idx]
    THEN Some(words_by_character_and_index[idx][u])
    ELSE None

RECURSIVE FindCandidateLoop(_, _, _, _)
\* The loop of find_candidate_matches from position idx on.
FindCandidateLoop(word, mapping, idx, candidates) ==
    IF idx > Len(word) THEN candidates
    ELSE LET u == word[idx] IN
         IF u \in DOMAIN mapping
         THEN LET found == WordsByCharacterAndIndex(mapping[u], idx) IN
              IF found # None
              THEN LET other_candidates == CHOOSE x \in found : TRUE IN
                   FindCandidateLoop(word, mapping, idx + 1,
                                     {x \in candidates : x \in other_candidates})
              ELSE FindCandidateLoop(word, mapping, idx + 1, candidates)
         ELSE FindCandidateLoop(word, mapping, idx + 1, candidates)

RECURSIVE FindCandidateLoopEncrypted(_, _, _, _)
\* FindCandidateLoop with a seeded fault: the position/byte lookup is made with the
\* encrypted byte instead of the byte it is mapped to.
FindCandidateLoopEncrypted(word, mapping, idx, candidates) ==
    IF idx > Len(word) THEN candidates
    ELSE LET u == word[idx] IN
         IF u \in DOMAIN mapping
         THEN LET found == WordsByCharacterAndIndex(u, idx) IN
              IF found # None
              THEN LET other_candidates == CHOOSE x \in found : TRUE IN
                   FindCandidateLoopEncrypted(word, mapping, idx + 1,
                                     {x \in candidates : x \in other_candidates})
              ELSE FindCandidateLoopEncrypted(word, mapping, idx + 1, candidates)
         ELSE FindCandidateLoopEncrypted(word, mapping, idx + 1, candidates)

\* FindCandidateMatches with the faulty loop above.
FindCandidateMatchesEncrypted(word, mapping) ==
    FindCandidateLoopEncrypted(word, mapping, 1, WordsByPattern(word))

\* Solver::find_candidate_matches
FindCandidateMatches(word, mapping) ==
    FindCandidateLoop(word, mapping, 1, WordsByPattern(word))

Min(a, b) == IF a < b THEN a ELSE b

RECURSIVE ExtendLoop(_, _, _, _, _)
\* The zip loop of try_extend_mapping: None on the first conflicting pair,
\* else Some(new_mapping) with the pairs inserted.
ExtendLoop(word, encrypted_word, mapping, i, new_mapping) ==
    IF i > Min(Len(encrypted_word), Len(word)) THEN Some(new_mapping)
    ELSE LET u_encoded == encrypted_word[i]
             u_decoded == word[i]
         IN  IF u_encoded \in DOMAIN new_mapping /\ new_mapping[u_encoded] # u_decoded
             THEN None
             ELSE IF u_encoded \in DOMAIN mapping /\ mapping[u_encoded] # u_decoded
             THEN None
             ELSE ExtendLoop(word, encrypted_word, mapping, i + 1,
                    [k \in DOMAIN new_mapping \cup {u_encoded} |->
                        IF k = u_encoded THEN u_decoded ELSE new_mapping[k]])

\* mapping.iter().for_each(.. new_mapping.entry(k).or_insert(v) ..)
MergeMapping(new_mapping, mapping) ==
    [k \in DOMAIN new_mapping \cup DOMAIN mapping |->
        IF k \in DOMAIN new_mapping THEN new_mapping[k] ELSE mapping[k]]

RECURSIVE ExtendLoopLastWins(_, _, _, _, _)
\* ExtendLoop with a seeded fault: a byte paired twice within the token is not
\* checked, the later pair wins.
ExtendLoopLastWins(word, encrypted_word, mapping, i, new_mapping) ==
    IF i > Min(Len(encrypted_word), Len(word)) THEN Some(new_mapping)
    ELSE LET u_encoded == encrypted_word[i]
             u_decoded == word[i]
         IN  IF u_encoded \in DOMAIN mapping /\ mapping[u_encoded] # u_decoded
             THEN None
             ELSE ExtendLoopLastWins(word, encrypted_word, mapping, i + 1,
                    [k \in DOMAIN new_mapping \cup {u_encoded} |->
                        IF k = u_encoded THEN u_decoded ELSE new_mapping[k]])

\* TryExtendMapping with the faulty loop above.
TryExtendMappingLastWins(word, encrypted_word, mapping) ==
    LET zipped == ExtendLoopLastWins(word, encrypted_word, mapping, 1, EmptyMap) IN
    IF zipped = None THEN None
    ELSE LET new_mapping == MergeMapping(CHOOSE m \in zipped : TRUE, mapping) IN
         IF Cardinality(Range(new_mapping)) # Cardinality(DOMAIN new_mapping)
         THEN None
         ELSE Some(new_mapping)

\* TryExtendMapping with a seeded fault: the test for "multiple characters to one
\* character" is left out.
TryExtendMappingNoValueSet(word, encrypted_word, mapping) ==
    LET zipped == ExtendLoop(word, encrypted_word, mapping, 1, EmptyMap) IN
    IF zipped = None THEN None
    ELSE Some(MergeMapping(CHOOSE m \in zipped : TRUE, mapping))

\* TryExtendMapping with a seeded fault: the pairs are not checked against the
\* existing mapping, which wins the merge.
TryExtendMappingNoExisting(word, encrypted_word, mapping) ==
    LET zipped == ExtendLoop(word, encrypted_word, EmptyMap, 1, EmptyMap) IN
    IF zipped = None THEN None
    ELSE LET new_mapping == MergeMapping(mapping, CHOOSE m \in zipped : TRUE) IN
         IF Cardinality(Range(new_mapping)) # Cardinality(DOMAIN new_mapping)
         THEN None
         ELSE Some(new_mapping)

\* Solver::try_extend_mapping
TryExtendMapping(word, encrypted_word, mapping) ==
    LET zipped == ExtendLoop(word, encrypted_word, mapping, 1, EmptyMap) IN
    IF zipped = None THEN None
    ELSE LET new_mapping == MergeMapping(CHOOSE m \in zipped : TRUE, mapping) IN
         IF Cardinality(Range(new_mapping)) # Cardinality(DOMAIN new_mapping)
         THEN None
         ELSE Some(new_mapping)

\* ------------------------------------------------------------------ solve
RECURSIVE SplitLoop(_, _, _, _)
\* str::split_whitespace: the maximal runs of non-whitespace bytes, in order.
SplitLoop(s, i, current, tokens) ==
    IF i > Len(s)
    THEN IF current = <<>> THEN tokens ELSE Append(tokens, current)
    ELSE IF s[i] \in Whitespace
    THEN SplitLoop(s, i + 1, <<>>,
                   IF current = <<>> THEN tokens ELSE Append(tokens, current))
    ELSE SplitLoop(s, i + 1, Append(current, s[i]), tokens)

SplitWhitespace(s) == SplitLoop(s, 1, <<>>, <<>>)

\* The orders in which a FxHashSet may yield its elements: every sequence
\* holding each element of S once.
Orders(S) ==
    {o \in [1..Cardinality(S) -> S] : \A i, j \in DOMAIN o : i # j => o[i] # o[j]}

\* EncryptedWords with a seeded fault: the tokens are not collected into a set.
EncryptedWordsNotCollapsed(s) == {SplitWhitespace(s)}

\* The encrypted_words solve may build (lines 111-114): the tokens collected
\* into a FxHashSet, then into a Vec in the set's order.
EncryptedWords(s) == Orders(Range(SplitWhitespace(s)))

\* RenderPhrase with a seeded fault: bytes the mapping does not hold are dropped.
RenderPhraseDropping(s, mapping) ==
    LET kept == SelectSeq(s, LAMBDA u : u \in DOMAIN mapping) IN
    [i \in 1..Len(kept) |-> mapping[kept[i]]]

\* The closure of solve (lines 118-124): each byte through the mapping,
\* bytes without an entry unchanged.
RenderPhrase(s, mapping) ==
    [i \in 1..Len(s) |-> IF s[i] \in DOMAIN mapping THEN mapping[s[i]] ELSE s[i]]

\* ------------------------------------------------------------------ guess
RECURSIVE SortLoop(_, _, _, _)
\* sort_by_key(|word| Reverse(find_candidate_matches(word, &mapping).len())):
\* a stable sort, most candidates first.  Element i goes after every element
\* already placed that has at least as many candidates.
SortLoop(ws, mapping, i, sorted) ==
    IF i > Len(ws) THEN sorted
    ELSE LET key(w) == Cardinality(FindCandidateMatches(w, mapping))
             smaller == {j \in 1..Len(sorted) : key(sorted[j]) < key(ws[i])}
             at == IF smaller = {} THEN Len(sorted) + 1
                   ELSE CHOOSE j \in smaller : \A k \in smaller : j <= k
         IN  SortLoop(ws, mapping, i + 1,
                      SubSeq(sorted, 1, at - 1) \o <<ws[i]>>
                          \o SubSeq(sorted, at, Len(sorted)))

SortByCandidates(ws, mapping) == SortLoop(ws, mapping, 1, <<>>)

\* CandidateMappings with a seeded fault: the first candidate only.
CandidateMappingsFirstOnly(encrypted_word, candidate_words, mapping) ==
    LET ok == {w \in candidate_words : TryExtendMapping(w, encrypted_word, mapping) # None}
        first == IF ok = {} THEN {} ELSE {CHOOSE w \in ok : TRUE}
    IN  [w \in first |-> CHOOSE m \in TryExtendMapping(w, encrypted_word, mapping) : TRUE]

\* The loop of lines 145-151: candidate word -> extended mapping, for the
\* candidates try_extend_mapping accepts.
CandidateMappings(encrypted_word, candidate_words, mapping) ==
    LET ok == {w \in candidate_words : TryExtendMapping(w, encrypted_word, mapping) # None}
    IN  [w \in ok |-> CHOOSE m \in TryExtendMapping(w, encrypted_word, mapping) : TRUE]

\* A guess call that has not run yet.
NewCall(mapping, encrypted_words) ==
    [mapping |-> mapping, args |-> encrypted_words, entered |-> FALSE,
     encrypted_word |-> None, encrypted_words |-> <<>>,
     candidate_words |-> {}, candidate_mappings |-> EmptyMap]

Top == stack[Len(stack)]

Pop(st) == SubSeq(st, 1, Len(st) - 1)

\* solve, lines 111-116: split, deduplicate, call guess with the empty mapping.
Solve ==
    /\ pc = "start"
    /\ \E encrypted_words \in EncryptedWords(phrase) :
          stack' = <<NewCall(EmptyMap, encrypted_words)>>
    /\ pc' = "guess"
    /\ steps' = steps + 1
    /\ UNCHANGED <<words, words_by_pattern, words_by_character_and_index, phrase, plain,
                   perm, results, output, depth, pat_in, pat_out, ext_in, ext_out>>

\* guess, lines 137-151: sort, pop; with no token left return the mapping,
\* else build candidate_mappings.
GuessBody ==
    /\ pc = "guess"
    /\ stack # <<>>
    /\ ~Top.entered
    /\ LET sorted == SortByCandidates(Top.args, Top.mapping) IN
       IF sorted = <<>>
       THEN /\ results' = Append(results, Top.mapping)
            /\ stack' = Pop(stack)
       ELSE LET encrypted_word == sorted[Len(sorted)]
                candidate_words == FindCandidateMatches(encrypted_word, Top.mapping)
            IN  /\ stack' = [stack EXCEPT ![Len(stack)] =
                        [@ EXCEPT !.entered = TRUE,
                                  !.encrypted_word = Some(encrypted_word),
                                  !.encrypted_words = Pop(sorted),
                                  !.candidate_words = candidate_words,
                                  !.candidate_mappings =
                                      CandidateMappings(encrypted_word, candidate_words,
                                                        Top.mapping)]]
                /\ UNCHANGED results
    /\ steps' = steps + 1
    /\ UNCHANGED <<words, words_by_pattern, words_by_character_and_index, phrase, plain,
                   perm, pc, output, depth, pat_in, pat_out, ext_in, ext_out>>

\* guess, lines 153-155: the flat_map takes the next entry of
\* candidate_mappings, in the map's order, and calls guess on it.
GuessRecurse ==
    /\ pc = "guess"
    /\ stack # <<>>
    /\ Top.entered
    /\ \E word \in DOMAIN Top.candidate_mappings :
          /\ stack' = Append(
                [stack EXCEPT ![Len(stack)].candidate_mappings =
                    [w \in DOMAIN Top.candidate_mappings \ {word} |->
                        Top.candidate_mappings[w]]],
                NewCall(Top.candidate_mappings[word], Top.encrypted_words))
          /\ depth' = IF Len(stack) > depth THEN Len(stack) ELSE depth
    /\ steps' = steps + 1
    /\ UNCHANGED <<words, words_by_pattern, words_by_character_and_index, phrase, plain,
                   perm, pc, results, output, pat_in, pat_out, ext_in, ext_out>>

\* guess, line 156: candidate_mappings is exhausted, the call returns.
GuessReturn ==
    /\ pc = "guess"
    /\ stack # <<>>
    /\ Top.entered
    /\ DOMAIN Top.candidate_mappings = {}
    /\ stack' = Pop(stack)
    /\ steps' = steps + 1
    /\ UNCHANGED <<words, words_by_pattern, words_by_character_and_index, phrase, plain,
                   perm, pc, results, output, depth, pat_in, pat_out, ext_in, ext_out>>

\* solve, lines 118-124: every mapping guess returned is rendered.
Render ==
    /\ pc = "guess"
    /\ stack = <<>>
    /\ output' = [i \in 1..Len(results) |-> RenderPhrase(phrase, results[i])]
    /\ pc' = "done"
    /\ steps' = steps + 1
    /\ UNCHANGED <<words, words_by_pattern, words_by_character_and_index, phrase, plain,
                   perm, stack, results, depth, pat_in, pat_out, ext_in, ext_out>>

\* ------------------------------------------------------------------- Init
Words == SeqsOf(Letters, 1, MaxWordLen)

Dictionaries == SeqsOf(Words, 0, MaxDictLen)

Phrases == SeqsOf(PhraseBytes, 0, MaxPhraseLen)

\* The search has not started and the pure-function variables are idle.
Idle ==
    /\ pc = "start"
    /\ stack = <<>>
    /\ results = <<>>
    /\ output = <<>>
    /\ depth = 0
    /\ steps = 0

NoPattern ==
    /\ pat_in = <<>>
    /\ pat_out = <<>>

NoExtend ==
    /\ ext_in = <<>>
    /\ ext_out = None

\* A solver built from any dictionary, about to solve any phrase.
Init ==
    /\ words \in Dictionaries
    /\ words_by_pattern = FromDictionary(words).words_by_pattern
    /\ words_by_character_and_index = FromDictionary(words).words_by_character_and_index
    /\ phrase \in Phrases
    /\ plain = phrase
    /\ perm = [u \in Letters |-> u]
    /\ Idle
    /\ NoPattern
    /\ NoExtend

Next == Solve \/ GuessBody \/ GuessRecurse \/ GuessReturn \/ Render

Spec == Init /\ [][Next]_vars

\* --------------------------------------------------------------- round trip
\* The permutations of the alphabet.
AlphabetPermutations == {f \in [Letters -> Letters] : \A u, v \in Letters : u # v => f[u] # f[v]}

\* Letter-by-letter encryption with a permutation; other bytes are kept.
Encrypt(s, f) == [i \in 1..Len(s) |-> IF s[i] \in DOMAIN f THEN f[s[i]] ELSE s[i]]

\* A solver built from a dictionary, about to solve the encryption of a
\* phrase made of words of that dictionary.
InitRoundTrip ==
    /\ words \in Dictionaries
    /\ words_by_pattern = FromDictionary(words).words_by_pattern
    /\ words_by_character_and_index = FromDictionary(words).words_by_character_and_index
    /\ plain \in {s \in Phrases : Range(SplitWhitespace(s)) \subseteq Range(words)}
    /\ perm \in AlphabetPermutations
    /\ phrase = Encrypt(plain, perm)
    /\ Idle
    /\ NoPattern
    /\ NoExtend

RoundTripSpec == InitRoundTrip /\ [][Next]_vars

\* ------------------------------------------------------- Pattern::from_str
PureLetters == 97..(96 + NumPureLetters)

PatternWords == SeqsOf(PureLetters, 0, MaxPatternLen)

\* Two words whose patterns are to be compared.
InitPattern ==
    /\ pat_in \in PatternWords \X PatternWords
    /\ pat_out = <<>>
    /\ words = <<>>
    /\ words_by_pattern = EmptyMap
    /\ words_by_character_and_index = EmptyMap
    /\ phrase = <<>>
    /\ plain = <<>>
    /\ perm = EmptyMap
    /\ Idle
    /\ NoExtend

\* Pattern::from_str on the next of the two words.
PatternStep ==
    /\ Len(pat_out) < Len(pat_in)
    /\ pat_out' = Append(pat_out, PatternFromStr(pat_in[Len(pat_out) + 1]))
    /\ UNCHANGED <<solveVars, pat_in, ext_in, ext_out>>

PatternSpec == InitPattern /\ [][PatternStep]_vars

\* ------------------------------------------------------ try_extend_mapping
ExtendWords == SeqsOf(PureLetters, 1, MaxWordLen)

\* Every FxHashMap<u8, u8> over the letters, injective or not.
Mappings == UNION {[D -> PureLetters] : D \in SUBSET PureLetters}

\* A candidate word, an encrypted word and a mapping.
InitExtend ==
    /\ ext_in \in ExtendWords \X ExtendWords \X Mappings
    /\ ext_out = None
    /\ words = <<>>
    /\ words_by_pattern = EmptyMap
    /\ words_by_character_and_index = EmptyMap
    /\ phrase = <<>>
    /\ plain = <<>>
    /\ perm = EmptyMap
    /\ Idle
    /\ NoPattern

\* try_extend_mapping on the input; the result is kept with a tag so that a
\* call that returned None differs from no call.
ExtendStep ==
    /\ ext_out = None
    /\ ext_out' = Some(TryExtendMapping(ext_in[1], ext_in[2], ext_in[3]))
    /\ UNCHANGED <<solveVars, pat_in, pat_out, ext_in>>

ExtendSpec == InitExtend /\ [][ExtendStep]_vars

\* ================================================================= claims
\* The whitespace-separated tokens of s: the maximal runs of bytes that are
\* not whitespace.
Tokens(s) ==
    {SubSeq(s, i, j) : <<i, j>> \in
        {ij \in (1..Len(s)) \X (1..Len(s)) :
            /\ ij[1] <= ij[2]
            /\ \A k \in ij[1]..ij[2] : s[k] \notin Whitespace
            /\ (ij[1] = 1 \/ s[ij[1] - 1] \in Whitespace)
            /\ (ij[2] = Len(s) \/ s[ij[2] + 1] \in Whitespace)}}

\* The bytes occurring in the tokens of s.
TokenBytes(s) == {s[i] : i \in {k \in 1..Len(s) : s[k] \notin Whitespace}}

\* The image of string t under the byte mapping f.
Image(f, t) == [k \in 1..Len(t) |-> f[t[k]]]

Injective(f) == \A a, b \in DOMAIN f : a # b => f[a] # f[b]

\* Same length and the same equal/unequal structure at every pair of positions.
SameShape(v, w) ==
    /\ Len(v) = Len(w)
    /\ \A i, j \in 1..Len(v) : (v[i] = v[j]) <=> (w[i] = w[j])

Dictionary == Range(words)

\* The calls of guess that have built their candidate_mappings.
Entered == {i \in 1..Len(stack) : stack[i].entered}

\* The token call i resolves.
Resolved(i) == CHOOSE t \in stack[i].encrypted_word : TRUE

\* C1: every string solve returns is the image of the whole phrase under one
\* byte-to-byte mapping that turns every token of the phrase into a word of
\* the dictionary; and when some token has no dictionary word of its pattern,
\* solve returns nothing.
C1_SolveSound ==
    pc = "done" =>
        /\ \A i \in DOMAIN output :
              \E f \in [PhraseBytes -> PhraseBytes] :
                  /\ output[i] = Image(f, phrase)
                  /\ \A t \in Tokens(phrase) : Image(f, t) \in Dictionary
        /\ (\E t \in Tokens(phrase) : \A w \in Dictionary : ~SameShape(w, t))
              => output = <<>>

\* solve returned a decoding of a phrase in which one encrypted byte occurs
\* in two different tokens.
C1_Witness ==
    /\ pc = "done"
    /\ output # <<>>
    /\ \E t, u \in Tokens(phrase) : t # u /\ Range(t) \cap Range(u) # {}

\* C2: guess started from the empty mapping returns every injective mapping
\* whose domain is the bytes of the phrase's tokens and that turns each token
\* into a dictionary word, each once and nothing else; with no token it
\* returns the empty mapping alone.
C2_GuessExhaustive ==
    pc = "done" =>
        LET solutions == {f \in [TokenBytes(phrase) -> Letters] :
                            /\ Injective(f)
                            /\ \A t \in Tokens(phrase) : Image(f, t) \in Dictionary}
        IN  /\ solutions = Range(results)
            /\ Len(results) = Cardinality(solutions)
            /\ Tokens(phrase) = {} => results = <<EmptyMap>>

\* guess returned two different mappings.
C2_Witness ==
    /\ pc = "done"
    /\ \E i, j \in DOMAIN results : results[i] # results[j]

\* C3: the mapping every guess call is given, every mapping waiting in a
\* candidate_mappings and every mapping guess returns is injective.
C3_MappingsInjective ==
    /\ \A i \in 1..Len(stack) :
          /\ Injective(stack[i].mapping)
          /\ \A w \in DOMAIN stack[i].candidate_mappings :
                Injective(stack[i].candidate_mappings[w])
    /\ \A i \in DOMAIN results : Injective(results[i])

\* A guess call holds a candidate word whose pairs agree with the token and
\* with the mapping, and that try_extend_mapping rejected all the same.
C3_Witness ==
    \E i \in Entered :
        \E w \in stack[i].candidate_words :
            /\ ExtendLoop(w, Resolved(i), stack[i].mapping, 1, EmptyMap) # None
            /\ TryExtendMapping(w, Resolved(i), stack[i].mapping) = None

\* C6: every string solve returns has the length of the phrase and holds, at
\* each position, the mapping's image of the phrase byte if the mapping has
\* one and the phrase byte otherwise; no whitespace byte is in the domain of
\* a mapping, and the output has whitespace exactly where the phrase has.
C6_RenderShape ==
    pc = "done" =>
        /\ Len(output) = Len(results)
        /\ \A i \in DOMAIN output :
              /\ Len(output[i]) = Len(phrase)
              /\ DOMAIN results[i] \cap Whitespace = {}
              /\ \A j \in 1..Len(phrase) :
                    /\ phrase[j] \in DOMAIN results[i]
                          => output[i][j] = results[i][phrase[j]]
                    /\ phrase[j] \notin DOMAIN results[i] => output[i][j] = phrase[j]
                    /\ (output[i][j] \in Whitespace) <=> (phrase[j] \in Whitespace)

\* solve returned a string that differs from a phrase with whitespace at
\* its start, between two tokens and at its end.
C6_Witness ==
    /\ pc = "done"
    /\ \E i \in DOMAIN output : output[i] # phrase
    /\ Len(phrase) >= 5
    /\ phrase[1] \in Whitespace
    /\ phrase[Len(phrase)] \in Whitespace
    /\ Cardinality(Tokens(phrase)) >= 2

\* C4: when the phrase is the letter-by-letter encryption, under a
\* permutation of the alphabet, of a plaintext made of dictionary words,
\* solve returns the plaintext among its results.
C4_RoundTrip ==
    pc = "done" => plain \in Range(output)

\* solve ran on a phrase of two tokens that the permutation changed.
C4_Witness ==
    /\ pc = "done"
    /\ phrase # plain
    /\ Cardinality(Tokens(plain)) >= 2
    /\ Len(output) >= 2

\* The dictionary words that have the token's pattern and carry the mapped
\* byte at every position whose encrypted byte the mapping holds.
LiveCandidates(token, mapping) ==
    {w \in Dictionary :
        /\ SameShape(w, token)
        /\ \A idx \in 1..Len(token) :
              token[idx] \in DOMAIN mapping => w[idx] = mapping[token[idx]]}

\* C5: the candidate_words find_candidate_matches gave a guess call are
\* exactly the dictionary words of the token's pattern that carry the mapped
\* byte at every already-mapped position (none, when no dictionary word has
\* that byte at that position).
C5_CandidatesExact ==
    \A i \in Entered :
        stack[i].candidate_words = LiveCandidates(Resolved(i), stack[i].mapping)

\* C8: the token a guess call resolves has no more live candidates, under
\* the call's mapping, than any token the call leaves for later.
C8_MostConstrainedFirst ==
    \A i \in Entered :
        \A t \in Range(stack[i].encrypted_words) :
            Cardinality(LiveCandidates(Resolved(i), stack[i].mapping))
                <= Cardinality(LiveCandidates(t, stack[i].mapping))

\* The position/byte pairs try_extend_mapping zips.
Pairs(word, encrypted_word) ==
    {<<encrypted_word[i], word[i]>> : i \in 1..Min(Len(encrypted_word), Len(word))}

\* C7: try_extend_mapping returns None exactly when an encrypted byte is
\* paired with two plaintext bytes within the token, or the mapping already
\* sends it to another byte, or the merge is not injective; otherwise it
\* returns the union of the mapping and the pairs, every entry of the
\* mapping kept; the input mapping is not changed.
C7_ExtendContract ==
    ext_out # None =>
        LET word == ext_in[1]
            encrypted_word == ext_in[2]
            mapping == ext_in[3]
            pairs == Pairs(word, encrypted_word)
            merged == pairs \cup {<<k, mapping[k]>> : k \in DOMAIN mapping}
            twice == \E p, q \in pairs : p[1] = q[1] /\ p[2] # q[2]
            remapped == \E p \in pairs : p[1] \in DOMAIN mapping /\ mapping[p[1]] # p[2]
            shared == \E p, q \in merged : p[1] # q[1] /\ p[2] = q[2]
            returned == CHOOSE r \in ext_out : TRUE
        IN  /\ (returned = None) <=> (twice \/ remapped \/ shared)
            /\ returned # None =>
                  LET new_mapping == CHOOSE m \in returned : TRUE IN
                  /\ {<<k, new_mapping[k]>> : k \in DOMAIN new_mapping} = merged
                  /\ \A k \in DOMAIN mapping : new_mapping[k] = mapping[k]

\* try_extend_mapping returned a mapping that holds an old entry and a new one.
C7_Witness ==
    /\ ext_out # None
    /\ ext_out # Some(None)
    /\ ext_in[3] # EmptyMap
    /\ \E r \in ext_out : \E m \in r : DOMAIN m # DOMAIN ext_in[3]

\* The position at which the byte at position i of w first occurs.
FirstOccurrence(w, i) == CHOOSE j \in 1..i : w[j] = w[i] /\ \A k \in 1..(j - 1) : w[k] # w[i]

\* C10: Pattern::from_str numbers the bytes 0, 1, 2, ... in the order of
\* their first occurrence, and two words get equal patterns exactly when they
\* have the same length and the same equal/unequal structure.
C10_PatternCanonical ==
    /\ \A n \in 1..Len(pat_out) :
          /\ Len(pat_out[n]) = Len(pat_in[n])
          /\ \A i \in 1..Len(pat_in[n]) :
                pat_out[n][i] =
                    Cardinality({pat_in[n][j] : j \in 1..(FirstOccurrence(pat_in[n], i) - 1)})
    /\ Len(pat_out) = 2 =>
          ((pat_out[1] = pat_out[2]) <=> SameShape(pat_in[1], pat_in[2]))

\* Both patterns are computed, for two different words of four bytes with a
\* repeated byte that share a pattern.
C10_Witness ==
    /\ Len(pat_out) = 2
    /\ pat_in[1] # pat_in[2]
    /\ Len(pat_in[1]) = 4
    /\ Cardinality(Range(pat_in[1])) = 3
    /\ pat_out[1] = pat_out[2]

\* The number of distinct tokens of the phrase.
DistinctTokens == Cardinality(Tokens(phrase))

\* Duplicate tokens are collapsed, a guess call gets one token fewer than
\* its caller, and the tokens resolved along the active path are distinct.
C9_OneTokenPerCall ==
    \A i \in 1..Len(stack) :
        /\ Cardinality(Range(stack[i].args)) = Len(stack[i].args)
        /\ Len(stack[i].args) = DistinctTokens - (i - 1)
        /\ i = 1 => Range(stack[i].args) = Tokens(phrase)
        /\ i > 1 => stack[i].args = stack[i - 1].encrypted_words
        /\ stack[i].entered =>
              /\ Len(stack[i].encrypted_words) = Len(stack[i].args) - 1
              /\ Range(stack[i].encrypted_words) = Range(stack[i].args) \ {Resolved(i)}
              /\ \A j \in 1..(i - 1) : Resolved(j) # Resolved(i)

\* The nesting of guess calls never exceeds the number of distinct tokens,
\* and when solve has returned it reached that number exactly if solve
\* returned some string.
C9_DepthBounded ==
    /\ depth <= DistinctTokens
    /\ pc = "done" => ((depth = DistinctTokens) <=> (output # <<>>))

RECURSIVE Work(_)
\* A bound on the steps a guess call with k tokens takes: its body, its
\* return and, for each dictionary word, a recursive call with k - 1 tokens.
Work(k) ==
    IF k = 0 THEN 1
    ELSE 2 + Cardinality(Dictionary) * (1 + Work(k - 1))

RECURSIVE StackWork(_)
\* The steps the calls stack[1..i] may still take.
StackWork(i) ==
    IF i = 0 THEN 0
    ELSE StackWork(i - 1) +
         IF stack[i].entered
         THEN 1 + Cardinality(DOMAIN stack[i].candidate_mappings)
                    * (1 + Work(Len(stack[i].encrypted_words)))
         ELSE Work(Len(stack[i].args))

\* The steps solve may still take: a natural number.
Remaining ==
    CASE pc = "start" -> 2 + Work(DistinctTokens)
      [] pc = "guess" -> 1 + StackWork(Len(stack))
      [] pc = "done" -> 0

\* The guards of Solve, Render, GuessBody, GuessRecurse and GuessReturn: one
\* of them can act.
CanStep ==
    \/ pc = "start" /\ EncryptedWords(phrase) # {}
    \/ pc = "guess" /\ stack = <<>>
    \/ pc = "guess" /\ stack # <<>> /\ ~Top.entered
    \/ pc = "guess" /\ stack # <<>> /\ Top.entered
          /\ DOMAIN Top.candidate_mappings # {}
    \/ pc = "guess" /\ stack # <<>> /\ Top.entered
          /\ DOMAIN Top.candidate_mappings = {}

\* C9 (as amended): duplicate tokens are collapsed before the search, every
\* recursive guess call receives exactly one token fewer than its caller,
\* each distinct token is resolved at most once on a search path, every solve
\* call terminates (the steps taken plus a bound on the steps left never
\* exceed the bound solve started with, and a step is possible until solve
\* has returned), and its recursion depth is at most the number of distinct
\* tokens, which it reaches exactly when solve returns some result.
C9_Terminates ==
    /\ C9_OneTokenPerCall
    /\ C9_DepthBounded
    /\ steps + Remaining <= 2 + Work(DistinctTokens)
    /\ pc # "done" => CanStep

\* C9 (as stated): when solve has returned, its recursion depth equals the
\* number of distinct tokens of the phrase.
C9_DepthEqualsTokens ==
    pc = "done" => depth = DistinctTokens

\* solve returned after resolving two distinct tokens of a phrase that
\* repeats a token.
C9_Witness ==
    /\ pc = "done"
    /\ Len(SplitWhitespace(phrase)) > DistinctTokens
    /\ DistinctTokens >= 2
    /\ depth = DistinctTokens

====
